---- MODULE Spec2Model ----
(***************************************************************************)
(* Model of telegram-files-downloader (main.go, both build variants):      *)
(* the /cd handler with its root check, the per-attachment download        *)
(* goroutine (temp write + rename) and the atomic statistics counters.     *)
(* Paths are strings, modelled as sequences of one-character strings, so   *)
(* that strings.HasPrefix, filepath.IsAbs and filepath.Join are computed   *)
(* on characters as the Go code computes them.                             *)
(***************************************************************************)
EXTENDS Integers, Sequences, FiniteSets, TLC

\* ------------------------------------------------------------------ bounds
MaxTasks == 2      \* download goroutines that may be spawned
MaxCd == 3         \* /cd commands that may be handled
NChunks == 1       \* chunks io.Copy writes for one file
UintBits == 8      \* bits of a modelled counter (Go's uint32 has 32; the
                   \* arithmetic is the same modulo 2^UintBits)

SizeSpan == 3      \* sizes tried on each side of a unit boundary

MaxStorm == 6      \* downloads in flight at once in the storm scenario
MaxEntries == 6    \* entries of a directory listing
Tasks == 1..MaxTasks
Modulus == 2^UintBits

\* ------------------------------------------------------------ path strings
Sep == "/"
Root == <<"/", "a">>                       \* cfg.InitialWorkingDir
DashR == <<"-", "r">>
TmpSuffix == <<".", "t", "m", "p">>
DotDot == <<".", ".">>
Dot == <<".">>

NameX == <<"x">>
NameXTmp == NameX \o TmpSuffix
NoName == <<>>

\* arguments a user may give to /cd
CdArgs ==
  { DashR,
    <<"b">>,
    DotDot,
    <<"x">>,
    <<"/", "a", "/", "b">>,
    <<"/", "a", "b">>,
    <<"/", "b">>,
    <<"/", "a", "/", ".", ".", "/", "b">> }

\* c.Args(): zero, one or two arguments
CdInputs == {<<>>} \cup {<<a>> : a \in CdArgs} \cup {<<DashR, <<"b">>>>}

\* file names a document may carry ("" = no file name)
DocNames == {NoName, NameX, NameXTmp}

\* doc.UniqueID of the attachment handled by goroutine t
UniqueID(t) == <<"u", ToString(t)>>

\* ------------------------------------------------------- string functions
IsAbs(p) == Len(p) > 0 /\ p[1] = Sep

HasPrefix(s, prefix) ==
  /\ Len(s) >= Len(prefix)
  /\ SubSeq(s, 1, Len(prefix)) = prefix

\* the elements of p between separators
RECURSIVE Split(_)
Split(s) ==
  IF s = <<>> THEN << <<>> >>
  ELSE LET r == Split(Tail(s))
       IN IF Head(s) = Sep THEN << <<>> >> \o r
          ELSE << <<Head(s)>> \o Head(r) >> \o Tail(r)

\* lexical/kernel resolution of elements against a stack of directory names
RECURSIVE Walk(_, _)
Walk(stack, elems) ==
  IF elems = <<>> THEN stack
  ELSE LET e == Head(elems)
           next == IF e = <<>> \/ e = Dot THEN stack
                   ELSE IF e = DotDot
                        THEN (IF stack = <<>> THEN <<>>
                              ELSE SubSeq(stack, 1, Len(stack) - 1))
                        ELSE Append(stack, e)
       IN Walk(next, Tail(elems))

RECURSIVE Render(_)
Render(stack) ==
  IF stack = <<>> THEN <<>>
  ELSE <<Sep>> \o Head(stack) \o Render(Tail(stack))

\* filepath.Clean of a rooted path
Clean(p) ==
  LET st == Walk(<<>>, Split(p))
  IN IF st = <<>> THEN <<Sep>> ELSE Render(st)

\* filepath.Join(dir, name) for a rooted dir
Join(dir, name) ==
  IF name = <<>> THEN Clean(dir) ELSE Clean(dir \o <<Sep>> \o name)

\* the directory a path names for the kernel of a process whose working
\* directory is cur (no symbolic links)
Abs(cur, p) == IF IsAbs(p) THEN Clean(p) ELSE Join(cur, p)

\* p itself and the directories above it, outermost first
Ancestors(p) ==
  LET st == Walk(<<>>, Split(p))
  IN [i \in 1..Len(st) |-> Render(SubSeq(st, 1, i))]

\* p is dir or lies beneath dir in the directory tree
Under(p, dir) ==
  LET sp == Walk(<<>>, Split(p))
      sd == Walk(<<>>, Split(dir))
  IN Len(sp) >= Len(sd) /\ SubSeq(sp, 1, Len(sd)) = sd


\* ------------------------------------------------------------------ state
VARIABLES
  variant,   \* "wd": build with /cd, destination is the process working directory
             \* "dest": build whose destination is TELEGRAM_DEST
  cwd,       \* working directory of the process (os.Getwd)
  dirs,      \* directories that exist
  fs,        \* regular files that exist: path -> inode
  data,      \* inode -> contents, a sequence of chunks (0 = a hole)
  stats,     \* Stats: DowloadsOk, DownloadsErr, DownloadsPending
  task,      \* the download goroutines
  cdCount,   \* /cd commands handled so far
  last,      \* the last /cd command: arguments, result, directory it ran in
  finished,  \* "All downloads finished" messages sent so far
  out        \* the last command answered: its name, its input, the messages sent

vars == <<variant, cwd, dirs, fs, data, stats, task, cdCount, last, finished, out>>

NoFile == 0

\* no command answered yet
NoReply == [cmd |-> "none", arg |-> <<>>, msgs |-> <<>>]

\* the attachment a download was submitted for: its kind and the file name
\* the sender supplied
NoAttachment == [kind |-> "none", name |-> <<>>]

IdleTask ==
  [pc |-> "idle", fname |-> <<>>, fpath |-> <<>>, tmp |-> <<>>,
   fd |-> NoFile, off |-> 0, v |-> 0, errMsg |-> "none", note |-> "none",
   okBy |-> 0, errBy |-> 0, att |-> NoAttachment]

Init ==
  /\ variant \in {"wd", "dest"}
  /\ cwd = Root
  /\ dirs = {<<Sep>>, Root}
  /\ fs = <<>>
  /\ data = [i \in Tasks |-> <<>>]
  /\ stats = [ok |-> 0, err |-> 0, pending |-> 0]
  /\ task = [t \in Tasks |-> IdleTask]
  /\ cdCount = 0
  /\ last = [args |-> <<>>, res |-> "none", from |-> Root]
  /\ finished = 0
  /\ out = NoReply

\* an add on a counter wider than the value added (no wrap at the width)
AddWide(x, delta) == x + delta

\* atomic.AddUint32
AddUint32(x, delta) == (x + delta) % Modulus

\* a decrement written ^uint32(1): it subtracts two
AllButOne == Modulus - 2

\* ^uint32(0)
AllOnes == Modulus - 1

\* -------------------------------------------------------------------- /cd
\* /cd without the -r case
CdTargetLiteral(arg) == arg

\* wd := args[0]; if wd == "-r" { wd = cfg.InitialWorkingDir }
CdTarget(arg) == IF arg = DashR THEN Root ELSE arg

\* the root check with its negation lost
OutsideRootInverted(wd) == IsAbs(wd) /\ HasPrefix(wd, Root)

\* filepath.IsAbs(wd) && !strings.HasPrefix(wd, cfg.InitialWorkingDir)
OutsideRoot(wd) == IsAbs(wd) /\ ~HasPrefix(wd, Root)

\* the directories os.MkdirAll has to make for wd, outermost first
Missing(wd) ==
  SelectSeq(Ancestors(Abs(cwd, wd)), LAMBDA d : d \notin dirs)

\* os.MkdirAll cannot succeed: an element of the path is a regular file
NotADirectory(wd) ==
  \E i \in DOMAIN Ancestors(Abs(cwd, wd)) :
     Ancestors(Abs(cwd, wd))[i] \in DOMAIN fs

\* the directories that exist after os.MkdirAll made `made` of the missing ones
MkdirAll(wd, made) ==
  dirs \cup {Missing(wd)[i] : i \in 1..made}

\* os.Chdir whose error is not looked at
ChdirUnchecked(wd, failed) == Abs(cwd, wd)

\* the working directory after os.Chdir(wd) returned
Chdir(wd, failed) == IF failed THEN cwd ELSE Abs(cwd, wd)

HandleCd ==
  /\ variant = "wd"
  /\ cdCount < MaxCd
  /\ cdCount' = cdCount + 1
  /\ \E args \in CdInputs :
       IF Len(args) # 1
       THEN /\ last' = [args |-> args, res |-> "usage", from |-> cwd]
            /\ UNCHANGED <<cwd, dirs>>
       ELSE LET wd == CdTarget(args[1]) IN
            IF OutsideRoot(wd)
            THEN /\ last' = [args |-> args, res |-> "outside", from |-> cwd]
                 /\ UNCHANGED <<cwd, dirs>>
            ELSE \E made \in 0..Len(Missing(wd)), chdirFails \in BOOLEAN :
                   /\ NotADirectory(wd) => made = 0
                   /\ dirs' = MkdirAll(wd, made)
                   /\ IF made < Len(Missing(wd))
                      THEN /\ last' = [args |-> args, res |-> "mkdir", from |-> cwd]
                           /\ cwd' = cwd
                      ELSE /\ cwd' = Chdir(wd, chdirFails)
                           /\ last' = [args |-> args,
                                       res |-> IF chdirFails THEN "chdir" ELSE "done",
                                       from |-> cwd]
  /\ UNCHANGED <<variant, out, fs, data, stats, task, finished>>

\* -------------------------------------------------------------- downloads
Set(t, r) == [task EXCEPT ![t] = r]

\* a handler that passes the supplied name on as it is
DocumentNameRaw(name, t) == name

\* fname := doc.FileName; if fname == "" { fname = doc.UniqueID }
DocumentName(name, t) == IF name = NoName THEN UniqueID(t) ELSE name

\* handleOnDocument: go downloadFile(c, doc.MediaFile(), fname)
HandleOnDocument(t) ==
  /\ task[t].pc = "idle"
  /\ \A u \in Tasks : u < t => task[u].pc # "idle"
  /\ \E name \in DocNames :
       task' = Set(t, [task[t] EXCEPT !.pc = "spawned",
                                      !.fname = DocumentName(name, t),
                                      !.att = [kind |-> "document",
                                               name |-> name]])
  /\ UNCHANGED <<variant, out, cwd, dirs, fs, data, stats, cdCount, last, finished>>

JpgSuffix == <<".", "j", "p", "g">>
Mp4Suffix == <<".", "m", "p", "4">>
VideoMp4 == "video/mp4"
VideoMimes == {VideoMp4, "video/webm"}
UnsupportedText == <<"U", "n", "s", "u", "p", "p", "o", "r", "t", "e", "d">>

\* handleOnPhoto: go downloadFile(c, p.MediaFile(), p.UniqueID+".jpg")
HandleOnPhoto(t) ==
  /\ variant = "wd"
  /\ task[t].pc = "idle"
  /\ \A u \in Tasks : u < t => task[u].pc # "idle"
  /\ task' = Set(t, [task[t] EXCEPT !.pc = "spawned",
                                    !.fname = UniqueID(t) \o JpgSuffix,
                                    !.att = [kind |-> "photo",
                                             name |-> NoName]])
  /\ UNCHANGED <<variant, out, cwd, dirs, fs, data, stats, cdCount, last, finished>>

\* handleOnVideo: a warning unless v.MIME is "video/mp4", then
\* go downloadFile(c, v.MediaFile(), v.UniqueID+".mp4")
HandleOnVideo(t) ==
  /\ variant = "wd"
  /\ task[t].pc = "idle"
  /\ \A u \in Tasks : u < t => task[u].pc # "idle"
  /\ \E mime \in VideoMimes :
       out' = [cmd |-> "video", arg |-> mime,
               msgs |-> IF mime # VideoMp4 THEN <<UnsupportedText>> ELSE <<>>]
  /\ task' = Set(t, [task[t] EXCEPT !.pc = "spawned",
                                    !.fname = UniqueID(t) \o Mp4Suffix,
                                    !.att = [kind |-> "video",
                                             name |-> NoName]])
  /\ UNCHANGED <<variant, cwd, dirs, fs, data, stats, cdCount, last, finished>>

\* downloadFile: atomic.AddUint32(&stats.DownloadsPending, 1)
Claim(t) ==
  /\ task[t].pc = "spawned"
  /\ stats' = [stats EXCEPT !.pending = AddUint32(@, 1)]
  /\ task' = Set(t, [task[t] EXCEPT !.pc = "claimed"])
  /\ UNCHANGED <<variant, out, cwd, dirs, fs, data, cdCount, last, finished>>

\* a destination that is always the initial directory
DestDirInitial == Root

\* the directory a download is saved to: mustGetWd() in the build with /cd,
\* cfg.InitialWorkingDir in the TELEGRAM_DEST build
DestDir == IF variant = "wd" THEN cwd ELSE Root

\* tmp := fpath + ".tmp"
TmpPath(fpath) == fpath \o TmpSuffix

\* a path computation that also changes back to the initial directory
ReadWdChdir(t) ==
  /\ task[t].pc = "claimed"
  /\ task' = Set(t, [task[t] EXCEPT !.pc = "download",
                                    !.fpath = Join(DestDir, task[t].fname),
                                    !.tmp = TmpPath(Join(DestDir, task[t].fname))])
  /\ cwd' = Root
  /\ UNCHANGED <<variant, out, dirs, fs, data, stats, cdCount, last, finished>>

\* downloadFileInternal: fpath := filepath.Join(..., fname); tmp := fpath + ".tmp"
ReadWd(t) ==
  /\ task[t].pc = "claimed"
  /\ task' = Set(t, [task[t] EXCEPT !.pc = "download",
                                    !.fpath = Join(DestDir, task[t].fname),
                                    !.tmp = TmpPath(Join(DestDir, task[t].fname))])
  /\ UNCHANGED <<variant, out, cwd, dirs, fs, data, stats, cdCount, last, finished>>

\* the files after os.Create(path) by goroutine t: an existing file keeps its
\* inode, a new file gets the inode t
Created(path, t) ==
  IF path \in DOMAIN fs THEN fs
  ELSE [q \in DOMAIN fs \cup {path} |-> IF q = path THEN t ELSE fs[q]]

\* c.Bot().Download(f, tmp), first part: fetch the file reference and
\* os.Create(tmp), which truncates
DownloadOpen(t) ==
  /\ task[t].pc = "download"
  /\ \E fault \in BOOLEAN :
       IF fault \/ task[t].tmp \in dirs
       THEN /\ task' = Set(t, [task[t] EXCEPT !.pc = "errReply",
                                              !.errMsg = "download"])
            /\ UNCHANGED <<fs, data>>
       ELSE /\ fs' = Created(task[t].tmp, t)
            /\ data' = [data EXCEPT ![fs'[task[t].tmp]] = <<>>]
            /\ task' = Set(t, [task[t] EXCEPT !.pc = "copy",
                                              !.fd = fs'[task[t].tmp],
                                              !.off = 0])
  /\ UNCHANGED <<variant, out, cwd, dirs, stats, cdCount, last, finished>>

\* the contents of a file after a write of chunk c at offset off
WriteAt(content, off, c) ==
  [k \in 1..(IF Len(content) > off + 1 THEN Len(content) ELSE off + 1) |->
     IF k = off + 1 THEN c
     ELSE IF k <= Len(content) THEN content[k] ELSE 0]

\* c.Bot().Download(f, tmp), second part: io.Copy writes the next chunk, or
\* fails; after the last chunk Download returns nil
DownloadCopy(t) ==
  /\ task[t].pc = "copy"
  /\ \E fault \in BOOLEAN :
       IF fault
       THEN /\ task' = Set(t, [task[t] EXCEPT !.pc = "errReply",
                                              !.errMsg = "download",
                                              !.fd = NoFile, !.off = 0])
            /\ UNCHANGED data
       ELSE /\ data' = [data EXCEPT ![task[t].fd] = WriteAt(@, task[t].off, t)]
            /\ task' = Set(t, IF task[t].off + 1 = NChunks
                               THEN [task[t] EXCEPT !.pc = "rename",
                                                    !.fd = NoFile, !.off = 0]
                               ELSE [task[t] EXCEPT !.off = @ + 1])
  /\ UNCHANGED <<variant, out, cwd, dirs, fs, stats, cdCount, last, finished>>

\* os.Rename(from, to) cannot succeed
RenameFails(from, to) == from \notin DOMAIN fs \/ to \in dirs

\* the files after a successful os.Rename(from, to)
Renamed(from, to) ==
  [q \in (DOMAIN fs \ {from}) \cup {to} |-> IF q = to THEN fs[from] ELSE fs[q]]

\* os.Rename(tmp, fpath)
Rename(t) ==
  /\ task[t].pc = "rename"
  /\ \E fault \in BOOLEAN :
       IF fault \/ RenameFails(task[t].tmp, task[t].fpath)
       THEN /\ task' = Set(t, [task[t] EXCEPT !.pc = "errReply",
                                              !.errMsg = "rename"])
            /\ UNCHANGED fs
       ELSE /\ fs' = Renamed(task[t].tmp, task[t].fpath)
            /\ task' = Set(t, [task[t] EXCEPT !.pc = "countOk"])
  /\ UNCHANGED <<variant, out, cwd, dirs, data, stats, cdCount, last, finished>>

\* logEverywhere(c, "Error: Download: %s") / logEverywhere(c, "Error: Rename: %s")
ErrReply(t) ==
  /\ task[t].pc = "errReply"
  /\ task' = Set(t, [task[t] EXCEPT !.pc = "countErr"])
  /\ UNCHANGED <<variant, out, cwd, dirs, fs, data, stats, cdCount, last, finished>>

\* an error path that returns without counting
FailedNone(s) == s

\* the counters after atomic.AddUint32(&stats.DownloadsErr, 1)
FailedOne(s) == [s EXCEPT !.err = AddUint32(@, 1)]

\* a success path that returns without counting
SucceededNone(s) == s

\* the counters after atomic.AddUint32(&stats.DowloadsOk, 1)
SucceededOne(s) == [s EXCEPT !.ok = AddUint32(@, 1)]

\* atomic.AddUint32(&stats.DownloadsErr, 1); return
CountErr(t) ==
  /\ task[t].pc = "countErr"
  /\ stats' = FailedOne(stats)
  /\ task' = Set(t, [task[t] EXCEPT !.pc = "release",
                                    !.okBy = @ + (stats'.ok - stats.ok),
                                    !.errBy = @ + (stats'.err - stats.err)])
  /\ UNCHANGED <<variant, out, cwd, dirs, fs, data, cdCount, last, finished>>

\* atomic.AddUint32(&stats.DowloadsOk, 1)
CountOk(t) ==
  /\ task[t].pc = "countOk"
  /\ stats' = SucceededOne(stats)
  /\ task' = Set(t, [task[t] EXCEPT !.pc = "release",
                                    !.okBy = @ + (stats'.ok - stats.ok),
                                    !.errBy = @ + (stats'.err - stats.err)])
  /\ UNCHANGED <<variant, out, cwd, dirs, fs, data, cdCount, last, finished>>

\* pending := atomic.AddUint32(&stats.DownloadsPending, ^uint32(0))
Release(t) ==
  /\ task[t].pc = "release"
  /\ stats' = [stats EXCEPT !.pending = AddUint32(@, AllOnes)]
  /\ task' = Set(t, [task[t] EXCEPT !.pc = "notify", !.v = stats'.pending])
  /\ UNCHANGED <<variant, out, cwd, dirs, fs, data, cdCount, last, finished>>

\* the two tests of downloadFile in the other order
ProgressFiveFirst(v) ==
  IF v % 5 = 0 THEN "periodic" ELSE IF v = 0 THEN "all" ELSE "none"

\* the message downloadFile sends for the value the decrement returned
Progress(v) ==
  IF v = 0 THEN "all" ELSE IF v % 5 = 0 THEN "periodic" ELSE "none"

\* if pending == 0 { logEverywhere(...) } else if pending%5 == 0 { ... }
Notify(t) ==
  /\ task[t].pc = "notify"
  /\ task' = Set(t, [task[t] EXCEPT !.pc = "done", !.note = Progress(task[t].v)])
  /\ finished' = finished + (IF Progress(task[t].v) = "all" THEN 1 ELSE 0)
  /\ UNCHANGED <<variant, out, cwd, dirs, fs, data, stats, cdCount, last>>

\* ----------------------------------------------------- humanReadableSize
Digits == <<"0", "1", "2", "3", "4", "5", "6", "7", "8", "9">>

\* fmt.Sprintf("%d", n) for n >= 0
RECURSIVE Decimal(_)
Decimal(n) ==
  IF n < 10 THEN <<Digits[n + 1]>>
  ELSE Decimal(n \div 10) \o <<Digits[(n % 10) + 1]>>

\* a size rendering that rounds to the nearest unit
HumanRounded(size) ==
  IF size < 1024 THEN Decimal(size) \o <<" ", "B">>
  ELSE IF size < 1024 * 1024
       THEN Decimal((size + 512) \div 1024) \o <<" ", "K", "B">>
       ELSE IF size < 1024 * 1024 * 1024
            THEN Decimal(((size \div 1024) + 512) \div 1024) \o <<" ", "M", "B">>
            ELSE Decimal((((size \div 1024) \div 1024) + 512) \div 1024)
                   \o <<" ", "G", "B">>

humanReadableSize(size) ==
  IF size < 1024 THEN Decimal(size) \o <<" ", "B">>
  ELSE IF size < 1024 * 1024
       THEN Decimal(size \div 1024) \o <<" ", "K", "B">>
       ELSE IF size < 1024 * 1024 * 1024
            THEN Decimal((size \div 1024) \div 1024) \o <<" ", "M", "B">>
            ELSE Decimal(((size \div 1024) \div 1024) \div 1024)
                   \o <<" ", "G", "B">>

\* file sizes: within SizeSpan of the unit boundaries and of some sizes
\* between them, up to the largest size the checker's integers hold
SizeCentres ==
  {0, 512, 1024, 1536, 2048, 10240, 1024 * 1024, 1536 * 1024,
   2 * 1024 * 1024, 1024 * 1024 * 1024, 1536 * 1024 * 1024}

Sizes ==
  {n \in UNION {(c - SizeSpan)..(c + SizeSpan) : c \in SizeCentres} : n >= 0}
    \cup {2147483647 - k : k \in 0..SizeSpan}

\* humanReadableSize applied to one size
RenderSize ==
  /\ out.cmd = "size"
  /\ out.msgs = <<>>
  /\ out' = [out EXCEPT !.msgs = <<humanReadableSize(out.arg)>>]
  /\ UNCHANGED <<variant, cwd, dirs, fs, data, stats, task, cdCount, last, finished>>

\* --------------------------------------------------------------- commands
HelpText == <<"h", "e", "l", "p">>

\* handleHelp: c.Send(msg)
HandleHelp ==
  /\ out' = [cmd |-> "help", arg |-> <<>>, msgs |-> <<HelpText>>]
  /\ UNCHANGED <<variant, cwd, dirs, fs, data, stats, task, cdCount, last, finished>>

\* handlePwd: c.Reply(mustGetWd())
HandlePwd ==
  /\ variant = "wd"
  /\ out' = [cmd |-> "pwd", arg |-> <<>>, msgs |-> <<cwd>>]
  /\ UNCHANGED <<variant, cwd, dirs, fs, data, stats, task, cdCount, last, finished>>

\* "Downloads : %d/%d (pending: %d)" of ok, ok+fail, pending
StatsText(ok, fail, pending) ==
  Decimal(ok) \o <<"/">> \o Decimal(AddUint32(ok, fail))
    \o <<" ", "(">> \o Decimal(pending) \o <<")">>

\* handleStats: three atomic loads, then logEverywhere
HandleStats ==
  /\ out' = [cmd |-> "stats", arg |-> <<>>,
             msgs |-> <<StatsText(stats.ok, stats.err, stats.pending)>>]
  /\ UNCHANGED <<variant, cwd, dirs, fs, data, stats, task, cdCount, last, finished>>

\* ------------------------------------------------------------------- /ls
LsLimit == 400
NameWidth == 50
Newline == "\n"

\* the kinds of directory entry tried: an empty file, a directory with a
\* long name, a file of one and a half KB
EntryKinds == {"empty", "longdir", "file"}
LongName == 88

RECURSIVE Repeat(_, _)
Repeat(c, n) == IF n <= 0 THEN <<>> ELSE <<c>> \o Repeat(c, n - 1)

\* the i-th entry of a listing, of kind k; ioutil.ReadDir returns the entries
\* sorted by name, and names in a directory are distinct
Entry(i, k) ==
  [name |-> <<"f", Digits[i + 1]>>
              \o (IF k = "longdir" THEN Repeat("n", LongName - 2) ELSE <<>>),
   isDir |-> (k = "longdir"),
   size |-> IF k = "empty" THEN 0 ELSE IF k = "longdir" THEN 4096 ELSE 1536]

\* the directory listings ioutil.ReadDir may return
Listings ==
  UNION {{[i \in 1..n |-> Entry(i, ks[i])] : ks \in [1..n -> EntryKinds]} :
           n \in 0..MaxEntries}

\* fmt.Sprintf("%-50s", name)
PadRight(name) == name \o Repeat(" ", NameWidth - Len(name))

\* s := fmt.Sprintf("%c %-50s: %s\n", t, file.Name(), humanReadableSize(file.Size()))
Line(e) ==
  <<IF e.isDir THEN "d" ELSE "-", " ">> \o PadRight(e.name) \o <<":", " ">>
    \o humanReadableSize(e.size) \o <<Newline>>

\* msg := "Files in " + wd + ":\n"
Header(wd) ==
  <<"F", "i", "l", "e", "s", " ", "i", "n", " ">> \o wd \o <<":", Newline>>

\* a buffer test that lets the buffer reach the limit
BufferOver(msg, s) == Len(s) + Len(msg) > LsLimit

\* if len(s)+len(msg) >= 400
BufferFull(msg, s) == Len(s) + Len(msg) >= LsLimit

\* the loop of handleLs and its final c.Reply(msg): the messages sent
RECURSIVE LsMessages(_, _, _)
LsMessages(msg, sent, entries) ==
  IF entries = <<>> THEN Append(sent, msg)
  ELSE LET s == Line(Head(entries))
       IN IF BufferFull(msg, s)
          THEN LsMessages(s, Append(sent, msg), Tail(entries))
          ELSE LsMessages(msg \o s, sent, Tail(entries))

\* handleLs when ioutil.ReadDir fails (readErr) or returns files
Ls(readErr, files) ==
  /\ variant = "wd"
  /\ out' = IF readErr
            THEN [cmd |-> "lsError", arg |-> <<>>, msgs |-> <<>>]
            ELSE [cmd |-> "ls", arg |-> files,
                  msgs |-> LsMessages(Header(cwd), <<>>, files)]
  /\ UNCHANGED <<variant, cwd, dirs, fs, data, stats, task, cdCount, last, finished>>

\* handleLs
HandleLs == \E readErr \in BOOLEAN, files \in Listings : Ls(readErr, files)

\* one step of the running download goroutine t
Run(t) ==
  \/ Claim(t)
  \/ ReadWd(t)
  \/ DownloadOpen(t)
  \/ DownloadCopy(t)
  \/ Rename(t)
  \/ ErrReply(t)
  \/ CountErr(t)
  \/ CountOk(t)
  \/ Release(t)
  \/ Notify(t)

\* an attachment arrives, or a download goroutine takes a step
DownloadStep(t) ==
  \/ HandleOnDocument(t)
  \/ Run(t)

Next ==
  \/ HandleHelp
  \/ HandleLs
  \/ HandlePwd
  \/ HandleCd
  \/ HandleStats
  \/ \E t \in Tasks : HandleOnPhoto(t) \/ HandleOnVideo(t)
  \/ \E t \in Tasks : DownloadStep(t)

\* both builds, commands and attachments
Spec == Init /\ [][Next]_vars

\* the build with /cd while only /cd commands arrive
InitCd == Init /\ variant = "wd"
NextCd == HandleCd
SpecCd == InitCd /\ [][NextCd]_vars

\* the TELEGRAM_DEST build, which has no /cd: only attachments arrive
InitDest == Init /\ variant = "dest"
NextDest == \E t \in Tasks : DownloadStep(t)
SpecDest == InitDest /\ [][NextDest]_vars

\* the TELEGRAM_DEST build right after a burst of n documents: every handler
\* has returned from `go downloadFile(...)` and no goroutine has run yet
InitBurst ==
  /\ variant = "dest"
  /\ cwd = Root
  /\ dirs = {<<Sep>>, Root}
  /\ fs = <<>>
  /\ data = [i \in Tasks |-> <<>>]
  /\ stats = [ok |-> 0, err |-> 0, pending |-> 0]
  /\ cdCount = 0
  /\ last = [args |-> <<>>, res |-> "none", from |-> Root]
  /\ finished = 0
  /\ out = NoReply
  /\ \E n \in 1..MaxTasks : \E names \in [1..n -> DocNames] :
       task = [t \in Tasks |->
                 IF t <= n
                 THEN [IdleTask EXCEPT !.pc = "spawned",
                                       !.fname = DocumentName(names[t], t),
                                       !.att = [kind |-> "document",
                                                name |-> names[t]]]
                 ELSE IdleTask]
NextBurst == \E t \in Tasks : Run(t)
SpecBurst == InitBurst /\ [][NextBurst]_vars

\* humanReadableSize on its own: a size is given, the function renders it
InitSize ==
  /\ variant = "wd"
  /\ cwd = Root
  /\ dirs = {<<Sep>>, Root}
  /\ fs = <<>>
  /\ data = [i \in Tasks |-> <<>>]
  /\ stats = [ok |-> 0, err |-> 0, pending |-> 0]
  /\ task = [t \in Tasks |-> IdleTask]
  /\ cdCount = 0
  /\ last = [args |-> <<>>, res |-> "none", from |-> Root]
  /\ finished = 0
  /\ \E n \in Sizes : out = [cmd |-> "size", arg |-> n, msgs |-> <<>>]
NextSize == RenderSize
SpecSize == InitSize /\ [][NextSize]_vars

\* the TELEGRAM_DEST build with n downloads in flight whose transfers have
\* all just failed before a file was made (each goroutine has claimed its
\* slot, computed its paths, got an error from c.Bot().Download and sent
\* its error reply)
InitStorm ==
  /\ variant = "dest"
  /\ cwd = Root
  /\ dirs = {<<Sep>>, Root}
  /\ fs = <<>>
  /\ data = [i \in Tasks |-> <<>>]
  /\ cdCount = 0
  /\ last = [args |-> <<>>, res |-> "none", from |-> Root]
  /\ finished = 0
  /\ out = NoReply
  /\ \E n \in 1..MaxStorm :
       /\ stats = [ok |-> 0, err |-> 0, pending |-> n]
       /\ task = [t \in 1..n |->
                    [IdleTask EXCEPT !.pc = "countErr",
                                     !.errMsg = "download",
                                     !.fname = UniqueID(t),
                                     !.att = [kind |-> "document",
                                              name |-> NoName],
                                     !.fpath = Join(Root, UniqueID(t)),
                                     !.tmp = TmpPath(Join(Root, UniqueID(t)))]]
NextStorm ==
  \E t \in DOMAIN task : CountErr(t) \/ Release(t) \/ Notify(t)
SpecStorm == InitStorm /\ [][NextStorm]_vars

\* the TELEGRAM_DEST build with the Go scheduler's fairness: a goroutine that
\* can take a step eventually takes one (every send and transfer returns)
FairDest == SpecDest /\ \A t \in Tasks : WF_vars(Run(t))

\* the build with /cd while attachments arrive: each is handed to a download
\* goroutine, which claims its slot and computes its paths
NextAttach ==
  \E t \in Tasks : \/ HandleOnDocument(t)
                   \/ HandleOnPhoto(t)
                   \/ HandleOnVideo(t)
                   \/ Claim(t)
                   \/ ReadWd(t)
SpecAttach == InitCd /\ [][NextAttach]_vars

\* the build with /cd serving one chat: commands arrive in any order while
\* one document is downloaded (a document is accepted here only while no
\* download was submitted yet); /cd is given b or -r, /ls lists an empty
\* directory
MixCdInputs == {<<<<"b">>>>, <<DashR>>}
NextMix ==
  \/ HandleHelp
  \/ HandlePwd
  \/ HandleStats
  \/ \E readErr \in BOOLEAN : Ls(readErr, <<>>)
  \/ HandleCd /\ last'.args \in MixCdInputs
  \/ \E t \in Tasks :
       /\ \A u \in Tasks : task[u].pc = "idle"
       /\ HandleOnDocument(t)
  \/ \E t \in Tasks : Run(t)
SpecMix == InitCd /\ [][NextMix]_vars

\* the build with /cd while /ls commands arrive, up to the first listing
\* that is read successfully
NextLs == out.cmd # "ls" /\ HandleLs
SpecLs == InitCd /\ [][NextLs]_vars

TypeOK ==
  /\ variant \in {"wd", "dest"}
  /\ stats.ok \in 0..(Modulus - 1)
  /\ stats.err \in 0..(Modulus - 1)
  /\ stats.pending \in 0..(Modulus - 1)
  /\ dirs \cap DOMAIN fs = {}
  /\ cwd \in dirs

\* ------------------------------------------------------------ /cd claims
\* the last /cd command had the single argument p
LastArg(p) == last.res # "none" /\ last.args = <<p>>

\* C1: after any sequence of /cd commands the working directory is the
\* initial root or a directory beneath it.
C1_Confined == Under(cwd, Root)

\* C6: a /cd whose argument is an absolute path that does not have the root
\* as a prefix fails with errorOutside, makes no directory and leaves the
\* working directory as it was.
C6_OutsideRejected ==
  [][(/\ cdCount' # cdCount
      /\ Len(last'.args) = 1
      /\ IsAbs(last'.args[1])
      /\ ~HasPrefix(last'.args[1], Root))
     => (last'.res = "outside" /\ cwd' = cwd /\ dirs' = dirs)]_vars

C6_Witness ==
  /\ LastArg(<<"/", "b">>)
  /\ last.res = "outside"
  /\ last.from = <<"/", "a", "/", "b">>
  /\ cwd = last.from

\* C8 as stated: whatever the state before, after /cd -r the working
\* directory is the initial root.
C8_ResetAlways == LastArg(DashR) => cwd = Root

\* C8 amended: a /cd -r that returns without error leaves the working
\* directory at the initial root and makes no directory, one that fails
\* leaves the working directory as it was, and a successful /cd -r right
\* after a successful /cd -r changes nothing.
C8_Reset ==
  [][(cdCount' # cdCount /\ last'.args = <<DashR>>)
     => /\ dirs' = dirs
        /\ last'.res \in {"done", "chdir"}
        /\ last'.res = "done" => cwd' = Root
        /\ last'.res = "chdir" => cwd' = cwd
        /\ (LastArg(DashR) /\ last.res = "done" /\ last'.res = "done")
             => cwd' = cwd]_vars

C8_Witness ==
  /\ LastArg(DashR)
  /\ last.res = "done"
  /\ last.from # Root
  /\ cwd = Root

\* C9: a successful /cd p with a relative path p makes the directory p
\* names and sets the working directory to p joined to the previous working
\* directory, which lies beneath the previous working directory.
C9_RelativeUnder ==
  \A p \in CdArgs \ {DashR} :
    (LastArg(p) /\ ~IsAbs(p) /\ last.res = "done")
      => /\ cwd = Join(last.from, p)
         /\ cwd \in dirs
         /\ Under(cwd, last.from)

\* C10: a /cd that returns an error (usage, outside the root, MkdirAll
\* failed, Chdir failed after MkdirAll succeeded) leaves the working
\* directory exactly as it was.
C10_NoPartialMutation ==
  [][(cdCount' # cdCount /\ last'.res # "done") => cwd' = cwd]_vars

C10_Witness ==
  /\ LastArg(<<"b">>)
  /\ last.res = "chdir"
  /\ Join(last.from, <<"b">>) \in dirs
  /\ cwd = last.from
  /\ cdCount = 1

\* ------------------------------------------------------- download claims
\* pending slot claimed and not yet released
InFlight ==
  {"claimed", "download", "copy", "rename", "errReply", "countErr",
   "countOk", "release"}

Submitted == {t \in Tasks : task[t].pc # "idle"}
Settled == {t \in Tasks : task[t].pc \in {"notify", "done"}}
Quiescent == \A t \in Tasks : task[t].pc \in {"idle", "done"}

\* the contents are all the chunks of one download
Complete(content) == \E u \in Tasks : content = [k \in 1..NChunks |-> u]

\* goroutine t has computed its paths
HasPaths(t) == task[t].fpath # <<>>

\* C2: a file at a download's final path holds complete contents, and no
\* download streams to a path that is another download's final path.
C2_AtomicVisibility ==
  \A t \in Tasks : HasPaths(t) =>
    /\ task[t].fpath \in DOMAIN fs => Complete(data[fs[task[t].fpath]])
    /\ \A u \in Tasks :
         (HasPaths(u) /\ task[u].pc = "copy") => task[u].tmp # task[t].fpath

\* C3: when a burst of N downloads has settled without a failure,
\* succeeded = N, failed = 0, pending = 0 and "All downloads finished" was
\* sent exactly once.
C3_FinishedOnce ==
  (Quiescent /\ \A t \in Tasks : task[t].errMsg = "none")
    => /\ stats.ok = Cardinality(Submitted)
       /\ stats.err = 0
       /\ stats.pending = 0
       /\ finished = 1

\* C4: when no download is in flight, succeeded + failed is the number of
\* downloads submitted and pending is 0.
C4_Conservation ==
  Quiescent =>
    /\ stats.ok + stats.err = Cardinality(Submitted)
    /\ stats.pending = 0

C4_Witness ==
  /\ Quiescent
  /\ Submitted = Tasks
  /\ \E t \in Tasks : task[t].okBy = 1
  /\ \E t \in Tasks : task[t].errMsg = "download"
  /\ stats.ok + stats.err = MaxTasks

\* C5: the pending counter is the number of downloads that have claimed a
\* slot and not released it (so it never wraps below zero, each claim adds
\* one and each release takes one away).
C5_PendingCounter ==
  stats.pending = Cardinality({t \in Tasks : task[t].pc \in InFlight})

C5_Witness ==
  /\ stats.pending = 1
  /\ \E t \in Tasks : task[t].pc = "notify" /\ task[t].v = 1
  /\ \E t \in Tasks : task[t].pc = "copy"

\* C7: a download that failed counted one failure and no success, and the
\* file at its final path, if there is one, holds none of its bytes.
C7_FailureLeavesNoFile ==
  \A t \in Settled : task[t].errMsg # "none" =>
    /\ task[t].errBy = 1
    /\ task[t].okBy = 0
    /\ task[t].fpath \in DOMAIN fs =>
         \A k \in DOMAIN data[fs[task[t].fpath]] : data[fs[task[t].fpath]][k] # t

\* ------------------------------------------------- settlement and replies
\* goroutine t has sent its "Error: ..." reply (logEverywhere has returned)
Replied(t) ==
  /\ task[t].errMsg # "none"
  /\ task[t].pc \in {"countErr", "release", "notify", "done"}

\* goroutine t has added its outcome to DowloadsOk or DownloadsErr
Counted(t) == task[t].okBy + task[t].errBy > 0

\* C11: no counter update of a download comes after a notification send of
\* that download: a download that has sent a reply has already counted its
\* outcome (so a send that blocks cannot hold up settlement).
C11_CountBeforeReply ==
  \A t \in Tasks : Replied(t) => Counted(t)

\* ------------------------------------------------------------ size claims
\* the rendering the size formatting is specified to give
Unit(k) == <<<<" ", "B">>, <<" ", "K", "B">>, <<" ", "M", "B">>, <<" ", "G", "B">>>>[k + 1]

RECURSIVE Pow1024(_)
Pow1024(k) == IF k = 0 THEN 1 ELSE 1024 * Pow1024(k - 1)

Magnitude(n) ==
  IF n < Pow1024(1) THEN 0 ELSE IF n < Pow1024(2) THEN 1
  ELSE IF n < Pow1024(3) THEN 2 ELSE 3

Reference(n) == Decimal(n \div Pow1024(Magnitude(n))) \o Unit(Magnitude(n))

\* C12: for every size n >= 0 humanReadableSize gives "<n> B" below 1024,
\* "<floor(n/1024)> KB" below 1024^2, "<floor(n/1024^2)> MB" below 1024^3
\* and "<floor(n/1024^3)> GB" otherwise.
C12_SizeRendering ==
  (out.cmd = "size" /\ out.msgs # <<>>)
    => /\ out.arg \in Sizes
       /\ out.msgs = <<Reference(out.arg)>>

C12_Witness ==
  /\ out.cmd = "size"
  /\ out.arg = 1536
  /\ out.msgs = << <<"1", " ", "K", "B">> >>

\* ------------------------------------------------------ progress messages
\* C13: a download sends at most one progress message, only after its own
\* decrement of pending; with v the value that decrement returned it sends
\* "All downloads finished" iff v = 0, the periodic message iff v # 0 and
\* v is a multiple of 5, and nothing otherwise.
C13_ProgressRule ==
  /\ [](\A t \in DOMAIN task :
          /\ task[t].pc # "done" => task[t].note = "none"
          /\ task[t].pc = "done" =>
               /\ task[t].note \in {"all", "periodic", "none"}
               /\ task[t].note = "all" <=> task[t].v = 0
               /\ task[t].note = "periodic" <=>
                    (task[t].v # 0 /\ task[t].v % 5 = 0))
  /\ [](finished = Cardinality({t \in DOMAIN task : task[t].note = "all"}))
  /\ [][\A t \in DOMAIN task :
          /\ (task[t].pc = "release" /\ task'[t].pc # "release")
               => (task'[t].v = stats'.pending /\ stats'.pending = stats.pending - 1)
          /\ task'[t].note # task[t].note
               => (task[t].pc = "notify" /\ task[t].note = "none")
          /\ task[t].pc \in {"notify", "done"} => task'[t].v = task[t].v]_vars

C13_Witness ==
  /\ \E t \in DOMAIN task : task[t].pc = "done" /\ task[t].v = 5 /\ task[t].note = "periodic"
  /\ \E t \in DOMAIN task : task[t].pc = "done" /\ task[t].v = 0 /\ task[t].note = "all"
  /\ \E t \in DOMAIN task : task[t].pc = "done" /\ task[t].v = 3 /\ task[t].note = "none"

RECURSIVE Concat(_)
Concat(ss) == IF ss = <<>> THEN <<>> ELSE Head(ss) \o Concat(Tail(ss))

\* total length of the first k sequences of ss
RECURSIVE CumLen(_, _)
CumLen(ss, k) == IF k = 0 THEN 0 ELSE CumLen(ss, k - 1) + Len(ss[k])

\* the pieces of the listing shown by the last /ls: header, then entry lines
Pieces == <<Header(cwd)>> \o [i \in 1..Len(out.arg) |-> Line(out.arg[i])]

\* the characters sent in the messages that closed before offset x
ClosedBefore(x) ==
  LET ends == {CumLen(out.msgs, j) : j \in 0..Len(out.msgs)}
  IN CHOOSE e \in ends : e < x /\ \A f \in ends : f < x => f <= e

\* the length of the buffer when piece p is about to be appended
BufferBefore(p) ==
  LET x == CumLen(Pieces, p - 1) IN x - ClosedBefore(x)

\* a message ended right before piece p
FlushedBefore(p) ==
  \E j \in 1..Len(out.msgs) : CumLen(out.msgs, j) = CumLen(Pieces, p - 1)

\* C16: the messages of a listing concatenate to header and entry lines in
\* order, messages end only at piece ends, the buffer is flushed before a
\* line exactly when len(buffer) + len(line) >= 400, a message of several
\* pieces is shorter than 400, and at least one message is always sent.
C16_LsChunking ==
  out.cmd = "ls" =>
    /\ Len(out.msgs) >= 1
    /\ Concat(out.msgs) = Concat(Pieces)
    /\ \A j \in 1..Len(out.msgs) :
         /\ \E p \in 1..Len(Pieces) : CumLen(Pieces, p) = CumLen(out.msgs, j)
         /\ (\A p \in 1..Len(Pieces) : out.msgs[j] # Pieces[p])
              => Len(out.msgs[j]) < LsLimit
    /\ \A p \in 2..Len(Pieces) :
         FlushedBefore(p) <=> BufferBefore(p) + Len(Pieces[p]) >= LsLimit

\* a listing whose buffer reached exactly the limit and was flushed
C16_Witness ==
  /\ out.cmd = "ls"
  /\ Len(out.msgs) >= 2
  /\ \E p \in 2..Len(Pieces) :
       FlushedBefore(p) /\ BufferBefore(p) + Len(Pieces[p]) = LsLimit

\* ---------------------------------------------------- attachment names
\* the download of t was submitted for an attachment without a file name
Unnamed(t) == task[t].att.kind # "none" /\ task[t].att.name = NoName

\* C17: a submitted download never has an empty file name: a document
\* without a name is saved under its unique id, a photo under id + ".jpg",
\* a video under id + ".mp4" whatever its MIME type (with a warning unless it
\* is video/mp4); two unnamed attachments never get the same final path.
C17_NamedTargets ==
  /\ \A t \in Tasks :
       task[t].pc # "idle" =>
         /\ task[t].fname # <<>>
         /\ task[t].att.kind = "document" =>
              task[t].fname = IF task[t].att.name = NoName
                              THEN UniqueID(t) ELSE task[t].att.name
         /\ task[t].att.kind = "photo" => task[t].fname = UniqueID(t) \o JpgSuffix
         /\ task[t].att.kind = "video" => task[t].fname = UniqueID(t) \o Mp4Suffix
  /\ out.cmd = "video" =>
       /\ \E t \in Tasks : task[t].att.kind = "video" /\ task[t].pc # "idle"
       /\ (out.msgs # <<>>) <=> (out.arg # VideoMp4)
  /\ \A t, u \in Tasks :
       (t # u /\ Unnamed(t) /\ Unnamed(u)
          /\ task[t].fpath # <<>> /\ task[u].fpath # <<>>)
         => task[t].fpath # task[u].fpath

\* an unnamed document and a video that is not video/mp4 both have their
\* paths, in the same directory
C17_Witness ==
  \E t, u \in Tasks :
    /\ task[t].att = [kind |-> "document", name |-> NoName]
    /\ task[u].att.kind = "video"
    /\ out.cmd = "video" /\ out.arg # VideoMp4
    /\ task[t].pc = "download" /\ task[u].pc = "download"

\* ------------------------------------------------------------ snapshots
\* the goroutines that have claimed a pending slot so far
Claimed == {t \in DOMAIN task : task[t].pc \notin {"idle", "spawned"}}

\* the goroutines between their outcome count and their pending decrement
Counting == {t \in DOMAIN task : task[t].pc = "release"}

\* C18: in every state ok + err + pending is at least the number of
\* goroutines that have claimed a slot and at most that number plus the
\* number of goroutines that have counted their outcome and not yet
\* decremented pending.
C18_SnapshotBounds ==
  LET sum == stats.ok + stats.err + stats.pending
  IN /\ sum >= Cardinality(Claimed)
     /\ sum <= Cardinality(Claimed) + Cardinality(Counting)

\* one download has succeeded and is counted twice in the snapshot while
\* another is already done
C18_Witness ==
  /\ \E t \in Tasks : task[t].pc = "release" /\ task[t].okBy = 1
  /\ \E u \in Tasks : task[u].pc = "done"
  /\ stats.ok + stats.err + stats.pending = Cardinality(Claimed) + 1

\* ------------------------------------------------- commands and downloads
\* this step is a step of a download goroutine
GoroutineStep ==
  \E t \in Tasks : task[t].pc # "idle" /\ task'[t] # task[t]

\* this step is a command: /cd, or a command that replied
CommandStep == cdCount' # cdCount \/ (out' # out /\ task' = task)

\* C15: commands leave the counters unchanged and no download step changes
\* the working directory; the working directory changes only in a /cd that
\* succeeded and the counters only in steps of download goroutines.
C15_Frame ==
  [][/\ CommandStep => stats' = stats
     /\ task' # task => cwd' = cwd
     /\ cwd' # cwd => (cdCount' # cdCount /\ last'.res = "done" /\ task' = task)
     /\ stats' # stats => (GoroutineStep /\ ~CommandStep)]_vars

\* /stats has shown a counted download while the working directory is not
\* the initial one
C15_Witness ==
  /\ out.cmd = "stats"
  /\ stats.ok = 1
  /\ cwd # Root
  /\ last.res = "done"

\* ----------------------------------------------------------- destination
\* the directory part of a path
DirOf(p) ==
  LET i == CHOOSE k \in 1..Len(p) :
             p[k] = Sep /\ \A j \in (k + 1)..Len(p) : p[j] # Sep
  IN SubSeq(p, 1, i - 1)

\* goroutine t has computed its paths
HasRead(t) == task[t].pc \notin {"idle", "spawned", "claimed"}

\* C19: a download computes fpath and tmp once, from the working directory
\* at the step after its claim; no later step, /cd included, changes them;
\* tmp and fpath are in the same directory; a successful rename puts the
\* file at fpath, in the directory that was current at the read.
C19_DestinationFixed ==
  [][\A t \in Tasks :
       /\ ~HasRead(t) => task[t].fpath = <<>> /\ task[t].tmp = <<>>
       /\ (~HasRead(t) /\ HasRead(t)') =>
            /\ task[t].pc = "claimed"
            /\ task'[t].fpath = Join(cwd, task[t].fname)
            /\ task'[t].tmp = task'[t].fpath \o TmpSuffix
            /\ DirOf(task'[t].fpath) = cwd
            /\ DirOf(task'[t].tmp) = cwd
       /\ HasRead(t) =>
            /\ task'[t].fpath = task[t].fpath
            /\ task'[t].tmp = task[t].tmp
            /\ DirOf(task[t].tmp) = DirOf(task[t].fpath)
       /\ (task[t].pc = "rename" /\ task'[t].pc = "countOk") =>
            /\ task[t].fpath \in DOMAIN fs'
            /\ fs'[task[t].fpath] = fs[task[t].tmp]]_vars

\* a file has landed in the directory read by its download, after a /cd
\* that came later moved the working directory elsewhere, although the
\* download was submitted in the initial directory
C19_Witness ==
  \E t \in Tasks :
    /\ task[t].pc = "countOk"
    /\ task[t].fpath \in DOMAIN fs
    /\ DirOf(task[t].fpath) # cwd
    /\ DirOf(task[t].fpath) # Root

====
